---- MODULE Spec2Model ----
(***************************************************************************)
(* Model of the graph core of automation-skill-gaps:                       *)
(*   scripts/esco/add_skill_levels.py          (depth resolver)            *)
(*   scripts/esco/map_skill_hierarchy_paths.py (path enumerator, labels)   *)
(*   scripts/onet/map_task_hierarchy_paths.py  (O*NET path string)         *)
(* Each script is one program; each gets its own specification over the    *)
(* shared variables below.                                                 *)
(***************************************************************************)
EXTENDS Integers, Sequences, FiniteSets, TLC

\* Identifiers that occur in generated edge streams.
StreamNodes == {"A", "B", "C"}

\* Identifiers that map_skill_hierarchy_paths.py is queried for (rows of its
\* skills.csv); "D" occurs only in the diamond and is otherwise an identifier
\* without any edge. add_skill_levels.py is queried for StreamNodes.
Nodes == StreamNodes \cup {"D"}

\* Longest generated edge stream (rows of skill_hierarchy.csv).
MaxEdges == 3

\* Most rows of skills.csv processed in one run of add_skill_levels.py.
MaxDepthQueries == 3

\* Most rows of skills.csv processed in one run of map_skill_hierarchy_paths.py.
MaxPathQueries == 2

VARIABLES
  script,           \* which of the three scripts this run executes
  edges,            \* rows of skill_hierarchy.csv: sequence of <<child, parent>>
  parent_map,       \* add_skill_levels.py: defaultdict(set), child -> set of parents
  order,            \* iteration order of each set in parent_map (hash order)
  memo,             \* add_skill_levels.py: depth_memo
  visited,          \* the visited set object of the last top-level call
  out,              \* ids of the "Warning: Cycle detected at ..." lines printed
  calls,            \* top-level resolver calls made so far: [skill_id, ret]
  raised,           \* TRUE once an exception has ended the run
  trace,            \* what the last top-level calculate_depth call went through
  rows,             \* rows written so far by the running script
  child_to_parents, \* map_skill_hierarchy_paths.py: defaultdict(list)
  labels,           \* map_skill_hierarchy_paths.py: labels dict
  task_row          \* map_task_hierarchy_paths.py: one row of hierarchy_paths

vars == <<script, edges, parent_map, order, memo, visited, out, calls, raised, trace, rows,
          child_to_parents, labels, task_row>>

----------------------------------------------------------------------------
(* Generic helpers *)

\* dict[k] = v on a plain dict
Put(d, k, v) == [x \in DOMAIN d \cup {k} |-> IF x = k THEN v ELSE d[x]]

EmptyDict == [x \in {} |-> 0]

\* All sequences over S of length 0..n
SeqsUpTo(S, n) == UNION {[1..k -> S] : k \in 0..n}

\* All enumerations (without repetition) of a finite set
Perms(S) == {p \in [1..Cardinality(S) -> S] : \A i, j \in 1..Cardinality(S) : p[i] = p[j] => i = j}

\* Named edge streams: the diamond of the documentation, a node whose two
\* parents lie on a two-node cycle, and a node whose two parents lead into a
\* cycle through the node itself.
Diamond == << <<"B", "A">>, <<"C", "A">>, <<"D", "B">>, <<"D", "C">> >>

ForkOverCycle == << <<"A", "B">>, <<"A", "C">>, <<"B", "C">>, <<"C", "B">> >>

ForkIntoCycle == << <<"A", "B">>, <<"A", "C">>, <<"B", "C">>, <<"C", "A">> >>

\* Every stream over StreamNodes up to MaxEdges rows (duplicates, self-loops
\* and cycles included) and the two forks
EdgeStreams == SeqsUpTo(StreamNodes \X StreamNodes, MaxEdges) \cup {ForkOverCycle, ForkIntoCycle}

\* The edge streams the runs of map_skill_hierarchy_paths.py start from
PathEdgeStreams == EdgeStreams \cup {Diamond}

----------------------------------------------------------------------------
(* add_skill_levels.py *)

\* defaultdict.__getitem__: the mapping after d[k] was evaluated
\* (a missing key is inserted with the default factory's value).
TouchSet(d, k) == IF k \in DOMAIN d THEN d ELSE Put(d, k, {})

RECURSIVE BuildFrom(_, _, _)
BuildFrom(es, i, pm) ==
  IF i > Len(es) THEN pm
  ELSE LET child_id  == es[i][1]
           parent_id == es[i][2]
           pm1       == TouchSet(pm, child_id)
       IN BuildFrom(es, i + 1, [pm1 EXCEPT ![child_id] = @ \cup {parent_id}])

build_parent_map(es) == BuildFrom(es, 1, EmptyDict)

\* The iteration orders a dict of sets can have.
Orders(pm) ==
  LET several == {k \in DOMAIN pm : Cardinality(pm[k]) >= 2}
      choices == {o \in [several -> UNION {Perms(pm[k]) : k \in several}] :
                    \A k \in several : o[k] \in Perms(pm[k])}
  IN {[k \in DOMAIN pm |-> IF k \in several THEN o[k]
                           ELSE IF pm[k] = {} THEN <<>>
                           ELSE <<CHOOSE x \in pm[k] : TRUE>>] : o \in choices}

\* for parent_id in parent_map[skill_id]
IterSet(pm, ord, k) == IF k \in DOMAIN ord /\ k \in DOMAIN pm THEN ord[k] ELSE <<>>

CycleDepthZero == 1 - 1

\* return 1 on a node met again on the recursion path
CycleDepth == 1

RootDepthZero == 1 - 1

\* memo[skill_id] = 1; return 1 for a node without parents
RootDepth == 1

MaxMin(a, b) == IF a <= b THEN a ELSE b

MaxLast(a, b) == b

\* max(max_parent_depth, parent_depth)
Max(a, b) == IF a >= b THEN a ELSE b

MemoizeParentDepth(m, skill_id, depth) == Put(m, skill_id, depth - 1)

\* memo[skill_id] = depth
Memoize(m, skill_id, depth) == Put(m, skill_id, depth)

HasNoParentsBySubscript(pm, skill_id) ==
  [none |-> TouchSet(pm, skill_id)[skill_id] = {}, pm |-> TouchSet(pm, skill_id)]

\* skill_id not in parent_map or not parent_map[skill_id]: the answer and the
\* defaultdict after the test (the subscript is evaluated only for a key
\* that is there)
HasNoParents(pm, skill_id) ==
  IF skill_id \notin DOMAIN pm THEN [none |-> TRUE, pm |-> pm]
  ELSE [none |-> TouchSet(pm, skill_id)[skill_id] = {}, pm |-> TouchSet(pm, skill_id)]

\* The interpreter's recursion limit: the most Python frames that may be
\* active; a call beyond it raises RecursionError.  Neither script sets it,
\* so a run has the interpreter's default (1000 in CPython); the model scales
\* it down to a limit that is above the deepest recursion any stream over
\* Nodes causes and that the chain of SpecDeep exceeds.
RecursionLimit == 8

\* Frames active when a script makes a top-level resolver call:
\* <module> and add_level_column, resp. map_skill_hierarchies
BaseFrames == 2

\* The call that would be frame number frames + 1 of the resolver cannot be made
TooDeep(frames) == BaseFrames + frames + 1 > RecursionLimit

\* One moment of a top-level call, as the recursion passes it: where it is
\* ("call": a call is entered, "memo" / "cycle" / "root": it returns from step
\* 1 / 2 / 3, "add": step 4 has added the node, "return": step 4 returns),
\* for which node, and the visited set, the memo and the stack at that moment
Observe(st, at, skill_id) ==
  [st EXCEPT !.trace = Append(@, [at |-> at, skill_id |-> skill_id, visited |-> st.visited,
                                  memo |-> st.memo, stack |-> st.stack])]

\* The cycle short-circuit: the warning is printed and 1 returned
CycleReturn(st, skill_id) == [st EXCEPT !.out = Append(@, skill_id), !.ret = CycleDepth]

BacktrackNothing(visited_set, skill_id) == visited_set

\* visited.remove(skill_id)
Backtrack(visited_set, skill_id) == visited_set \ {skill_id}

\* calculate_depth threads the mutable objects it is handed:
\*   st = [memo, visited, out, pm, ret, stack, raised, trace]; ret is the
\*   value returned, stack the nodes of the calculate_depth frames that are
\*   active in step 4 (the callers: only step 4 makes calls), innermost last,
\*   raised whether the call ended in an exception instead of returning.
RECURSIVE calculate_depth(_, _, _), DepthLoop(_, _, _, _, _)
calculate_depth(skill_id, st, ord) ==
  IF TooDeep(Len(st.stack))
    THEN [st EXCEPT !.raised = TRUE]
  ELSE LET e == Observe(st, "call", skill_id)
       IN IF skill_id \in DOMAIN e.memo
            THEN Observe([e EXCEPT !.ret = e.memo[skill_id]], "memo", skill_id)
          ELSE IF skill_id \in e.visited
            THEN Observe(CycleReturn(e, skill_id), "cycle", skill_id)
          ELSE LET t  == HasNoParents(e.pm, skill_id)
                   s0 == [e EXCEPT !.pm = t.pm]
               IN IF t.none
                    THEN Observe([s0 EXCEPT !.memo = Put(@, skill_id, RootDepth),
                                            !.ret = RootDepth], "root", skill_id)
                  ELSE LET s1 == Observe([s0 EXCEPT !.visited = @ \cup {skill_id},
                                                    !.pm = TouchSet(@, skill_id),
                                                    !.stack = Append(@, skill_id)],
                                         "add", skill_id)
                           s2 == DepthLoop(IterSet(s1.pm, ord, skill_id), 1, s1, 0, ord)
                           depth == s2.ret + 1
                       IN IF s2.raised THEN [s2 EXCEPT !.stack = st.stack]
                          ELSE Observe([s2 EXCEPT !.visited = Backtrack(@, skill_id),
                                                  !.memo = Memoize(@, skill_id, depth),
                                                  !.ret = depth,
                                                  !.stack = st.stack],
                                       "return", skill_id)

DepthLoop(parents, i, st, max_parent_depth, ord) ==
  IF i > Len(parents) THEN [st EXCEPT !.ret = max_parent_depth]
  ELSE LET r == calculate_depth(parents[i], st, ord)
       IN IF r.raised THEN r
          ELSE DepthLoop(parents, i + 1, r, Max(max_parent_depth, r.ret), ord)

\* One top-level call as add_level_column makes it: a fresh visited set.
TopDepth(skill_id, pm, m, o, ord) ==
  calculate_depth(skill_id, [memo |-> m, visited |-> {}, out |-> o, pm |-> pm, ret |-> 0,
                             stack |-> <<>>, raised |-> FALSE, trace |-> <<>>], ord)

\* add_level_column up to the row loop, on one of the edge streams S
InitDepthOn(S) ==
  /\ script = "add_skill_levels"
  /\ edges \in S
  /\ parent_map = build_parent_map(edges)
  /\ order \in Orders(parent_map)
  /\ memo = EmptyDict
  /\ visited = {}
  /\ out = <<>>
  /\ calls = <<>>
  /\ raised = FALSE
  /\ trace = <<>>
  /\ rows = <<>>
  /\ child_to_parents = EmptyDict
  /\ labels = EmptyDict
  /\ task_row = EmptyDict

InitDepth == InitDepthOn(EdgeStreams)

\* add_level_column: one iteration of the row loop; an exception from the
\* call is not caught and ends the run before the row is written
DepthQuery(skill_id) ==
  /\ script = "add_skill_levels"
  /\ ~raised
  /\ Len(calls) < MaxDepthQueries
  /\ LET r == TopDepth(skill_id, parent_map, memo, out, order)
     IN /\ memo' = r.memo
        /\ parent_map' = r.pm
        /\ visited' = r.visited
        /\ out' = r.out
        /\ raised' = r.raised
        /\ trace' = r.trace
        /\ calls' = IF r.raised THEN calls
                    ELSE Append(calls, [skill_id |-> skill_id, ret |-> r.ret])
        /\ rows' = IF r.raised THEN rows
                   ELSE Append(rows, [ID |-> skill_id, LEVEL |-> ToString(r.ret)])
  /\ UNCHANGED <<script, edges, order, child_to_parents, labels, task_row>>

NextDepth == \E skill_id \in StreamNodes : DepthQuery(skill_id)

SpecDepth == InitDepth /\ [][NextDepth]_vars

----------------------------------------------------------------------------
(* map_skill_hierarchy_paths.py *)

\* defaultdict(list).__getitem__
TouchList(d, k) == IF k \in DOMAIN d THEN d ELSE Put(d, k, <<>>)

RECURSIVE LoadFrom(_, _, _)
LoadFrom(es, i, c2p) ==
  IF i > Len(es) THEN c2p
  ELSE LET child_id  == es[i][1]
           parent_id == es[i][2]
           c1        == TouchList(c2p, child_id)
       IN LoadFrom(es, i + 1, [c1 EXCEPT ![child_id] = Append(@, parent_id)])

load_hierarchy(es) == LoadFrom(es, 1, EmptyDict)

\* The label tables load_labels can produce that the runs start from.
LabelTables == { [x \in {"A"} |-> "Root Skill"],
                 [x \in {"A", "B", "D"} |-> IF x = "A" THEN "alpha" ELSE IF x = "B" THEN "beta" ELSE ""] }

\* dict.get(k, default)
DictGet(d, k, default) == IF k \in DOMAIN d THEN d[k] ELSE default

\* sep.join(strs)
RECURSIVE Join(_, _)
Join(sep, strs) ==
  IF strs = <<>> THEN ""
  ELSE IF Len(strs) = 1 THEN strs[1]
  ELSE strs[1] \o sep \o Join(sep, Tail(strs))

SharedVisited(vis, callee_left) == callee_left

\* visited.copy(): the caller's visited set after a recursive call returned.
\* The callee added to its own copy (callee_left), the caller's set is as before.
CopiedVisited(vis, callee_left) == vis

\* skill_id not in child_to_parents or not child_to_parents[skill_id]
HasNoParentList(c2p, skill_id) ==
  IF skill_id \notin DOMAIN c2p THEN [none |-> TRUE, c2p |-> c2p]
  ELSE [none |-> TouchList(c2p, skill_id)[skill_id] = <<>>, c2p |-> TouchList(c2p, skill_id)]

\* get_all_paths threads the defaultdict it subscripts; vis_left is the
\* callee's own visited set when it returns.
\* A call is frame Len(current_path) of the resolver; raised tells whether
\* it ended in an exception instead of returning.
RECURSIVE get_all_paths(_, _, _, _), PathsLoop(_, _, _, _, _, _)
get_all_paths(skill_id, c2p, current_path, vis) ==
  IF TooDeep(Len(current_path) - 1)
    THEN [paths |-> <<>>, c2p |-> c2p, vis_left |-> vis, raised |-> TRUE]
  ELSE IF skill_id \in vis
    THEN [paths |-> <<current_path>>, c2p |-> c2p, vis_left |-> vis, raised |-> FALSE]
  ELSE LET t == HasNoParentList(c2p, skill_id)
       IN IF t.none
            THEN [paths |-> <<current_path>>, c2p |-> t.c2p, vis_left |-> vis, raised |-> FALSE]
          ELSE LET vis1 == vis \cup {skill_id}
                   c1   == TouchList(t.c2p, skill_id)
               IN PathsLoop(c1[skill_id], 1, c1, current_path, vis1, <<>>)

PathsLoop(parents, i, c2p, current_path, vis, all_paths) ==
  IF i > Len(parents)
    THEN [paths |-> all_paths, c2p |-> c2p, vis_left |-> vis, raised |-> FALSE]
  ELSE LET parent_id == parents[i]
           r == get_all_paths(parent_id, c2p, Append(current_path, parent_id), vis)
       IN IF r.raised THEN r
          ELSE PathsLoop(parents, i + 1, r.c2p, current_path,
                         CopiedVisited(vis, r.vis_left), all_paths \o r.paths)

TopPathsEmptyStart(skill_id, c2p) == get_all_paths(skill_id, c2p, <<>>, {})

\* get_all_paths(skill_id, child_to_parents) with the defaults filled in
TopPaths(skill_id, c2p) == get_all_paths(skill_id, c2p, <<skill_id>>, {})

hierarchy_path_blank(path, lbl) ==
  Join(" ; ", [i \in 1..Len(path) |-> DictGet(lbl, path[i], "")])

\* " ; ".join(labels.get(node_id, node_id) for node_id in path)
hierarchy_path(path, lbl) ==
  Join(" ; ", [i \in 1..Len(path) |-> DictGet(lbl, path[i], path[i])])

\* The output row built for one path of one skill
PathRow(skill_id, path, lbl) ==
  [ID |-> skill_id,
   levels_up |-> [level \in 1..(Len(path) - 1) |->
                    [id |-> path[level + 1],
                     preferredlabel |-> DictGet(lbl, path[level + 1], "")]],
   hierarchy_path |-> hierarchy_path(path, lbl)]

\* map_skill_hierarchies up to the row loop, on one of the edge streams S
InitPathsOn(S) ==
  /\ script = "map_skill_hierarchy_paths"
  /\ edges \in S
  /\ child_to_parents = load_hierarchy(edges)
  /\ labels \in LabelTables
  /\ calls = <<>>
  /\ raised = FALSE
  /\ trace = <<>>
  /\ rows = <<>>
  /\ parent_map = EmptyDict
  /\ order = EmptyDict
  /\ memo = EmptyDict
  /\ visited = {}
  /\ out = <<>>
  /\ task_row = EmptyDict

InitPaths == InitPathsOn(PathEdgeStreams)

\* map_skill_hierarchies: one iteration of the row loop; an exception from
\* the call is not caught and ends the run
PathsQuery(skill_id) ==
  /\ script = "map_skill_hierarchy_paths"
  /\ ~raised
  /\ Len(calls) < MaxPathQueries
  /\ LET r == TopPaths(skill_id, child_to_parents)
     IN /\ child_to_parents' = r.c2p
        /\ raised' = r.raised
        /\ calls' = IF r.raised THEN calls
                    ELSE Append(calls, [skill_id |-> skill_id, ret |-> r.paths])
        /\ rows' = IF r.raised THEN rows
                   ELSE rows \o [i \in 1..Len(r.paths) |-> PathRow(skill_id, r.paths[i], labels)]
  /\ UNCHANGED <<script, edges, labels, parent_map, order, memo, visited, out, trace, task_row>>

NextPaths == \E skill_id \in Nodes : PathsQuery(skill_id)

SpecPaths == InitPaths /\ [][NextPaths]_vars

----------------------------------------------------------------------------
(* map_task_hierarchy_paths.py *)

\* A cell of a DataFrame row: <<>> is NaN/None, <<v>> holds v.
NaN == <<>>

notna(cell) == cell # NaN

\* Rows of the joined hierarchy_paths table the runs start from: the task id
\* is always there; every level above may be missing, or have an id with or
\* without its name.
Levels == { [id |-> NaN, name |-> NaN] } \cup
          { [id |-> <<"id">>, name |-> n] : n \in {NaN, <<"name">>} }

Cell(prefix, cell) == IF cell = NaN THEN NaN ELSE <<prefix \o cell[1]>>

OnetRows ==
  { [Task_ID |-> <<"T1">>, Task |-> t,
     DWA_ID |-> Cell("DWA-", d.id), DWA_Title |-> Cell("dwa ", d.name),
     IWA_ID |-> Cell("IWA-", i.id), IWA_Title |-> Cell("iwa ", i.name),
     WA_Element_ID |-> Cell("WA-", w.id), WA_Element_Name |-> Cell("wa ", w.name)] :
    t \in {NaN, <<"Weld parts">>, <<"Grind parts">>}, d \in Levels, i \in Levels, w \in Levels }

\* create_path_string(row)
create_path_string(row) ==
  LET c1 == IF notna(row.WA_Element_Name) THEN <<row.WA_Element_Name[1]>> ELSE <<>>
      c2 == IF notna(row.IWA_Title) THEN Append(c1, row.IWA_Title[1]) ELSE c1
      c3 == IF notna(row.DWA_Title) THEN Append(c2, row.DWA_Title[1]) ELSE c2
      components == IF notna(row.Task) THEN Append(c3, row.Task[1]) ELSE c3
  IN IF components # <<>> THEN <<Join(" ; ", components)>> ELSE NaN

\* create_hierarchy_paths after the joins, one row
InitOnet ==
  /\ script = "map_task_hierarchy_paths"
  /\ task_row \in OnetRows
  /\ edges = <<>>
  /\ child_to_parents = EmptyDict
  /\ labels = EmptyDict
  /\ calls = <<>>
  /\ raised = FALSE
  /\ trace = <<>>
  /\ rows = <<>>
  /\ parent_map = EmptyDict
  /\ order = EmptyDict
  /\ memo = EmptyDict
  /\ visited = {}
  /\ out = <<>>

\* hierarchy_paths['Hierarchy_Path'] = hierarchy_paths.apply(create_path_string, axis=1)
ApplyPathString ==
  /\ script = "map_task_hierarchy_paths"
  /\ "Hierarchy_Path" \notin DOMAIN task_row
  /\ task_row' = [c \in DOMAIN task_row \cup {"Hierarchy_Path"} |->
                    IF c = "Hierarchy_Path" THEN create_path_string(task_row) ELSE task_row[c]]
  /\ UNCHANGED <<script, edges, parent_map, order, memo, visited, out, calls, raised, trace, rows,
                 child_to_parents, labels>>

NextOnet == ApplyPathString

SpecOnet == InitOnet /\ [][NextOnet]_vars

----------------------------------------------------------------------------
(* The three scripts together *)

Init == InitDepth \/ InitPaths \/ InitOnet

Next == NextDepth \/ NextPaths \/ NextOnet

Spec == Init /\ [][Next]_vars

\* A hierarchy that is one chain child -> parent of RecursionLimit nodes,
\* "A" at the bottom: "A" -> "2" -> "3" -> ... 
ChainNode(i) == IF i = 1 THEN "A" ELSE ToString(i)

LongChain == [i \in 1..(RecursionLimit - 1) |-> <<ChainNode(i), ChainNode(i + 1)>>]

\* The short streams and the long chain
DeepStreams == SeqsUpTo(StreamNodes \X StreamNodes, 2) \cup {LongChain}

\* The two ESCO scripts on hierarchies that may be as deep as the interpreter's stack
InitDeep == InitDepthOn(DeepStreams) \/ InitPathsOn(DeepStreams)

NextDeep == NextDepth \/ NextPaths

SpecDeep == InitDeep /\ [][NextDeep]_vars

\* The two scripts that render a path string
SpecFormat == (InitPaths \/ InitOnet) /\ [][NextPaths \/ NextOnet]_vars

----------------------------------------------------------------------------
(* Vocabulary of the properties *)

IsDepthRun == script = "add_skill_levels"

IsPathsRun == script = "map_skill_hierarchy_paths"

IsOnetRun == script = "map_task_hierarchy_paths"

\* Recorded parents of n in the depth resolver's index
Parents(n) == IF n \in DOMAIN parent_map THEN parent_map[n] ELSE {}

\* Recorded parents of n in the path enumerator's index, as a set
ListParents(c2p, n) == IF n \in DOMAIN c2p THEN {c2p[n][i] : i \in 1..Len(c2p[n])} ELSE {}

EdgeSet(es) == {es[i] : i \in 1..Len(es)}

RECURSIVE UpClosure(_, _, _)
UpClosure(E, S, k) ==
  IF k = 0 THEN S
  ELSE UpClosure(E, S \cup {e[2] : e \in {f \in E : f[1] \in S}}, k - 1)

\* Nodes reachable from n by one or more child -> parent edges of E
Up(E, n) == UpClosure(E, {e[2] : e \in {f \in E : f[1] = n}}, Cardinality(E))

\* No cycle of E can be reached from n (n itself included)
CycleFreeFrom(E, n) == \A m \in {n} \cup Up(E, n) : m \notin Up(E, m)

Acyclic(E) == \A e \in E : e[1] \notin Up(E, e[1])

SetMax(S) == IF S = {} THEN 0
             ELSE LET x == CHOOSE y \in S : \A z \in S : y >= z IN x

\* The skills queried so far, in order
Queried == [i \in 1..Len(calls) |-> calls[i].skill_id]

\* A whole run of add_level_column's row loop over the skills qs, from an
\* empty memo, with iteration order ord
RECURSIVE RunDepth(_, _, _, _)
RunDepth(qs, pm, ord, acc) ==
  IF qs = <<>> THEN acc
  ELSE LET r == TopDepth(Head(qs), pm, acc.memo, acc.out, ord)
       IN RunDepth(Tail(qs), r.pm, ord,
                   [memo |-> r.memo, out |-> r.out, rets |-> Append(acc.rets, r.ret)])

FreshRun == [memo |-> EmptyDict, out |-> <<>>, rets |-> <<>>]

Returned == [i \in 1..Len(calls) |-> calls[i].ret]

----------------------------------------------------------------------------
(* C1 *)

\* Every value a top-level call returned is the memoized one
ReturnsAreMemoized ==
  \A i \in 1..Len(calls) :
    calls[i].skill_id \in DOMAIN memo /\ calls[i].ret = memo[calls[i].skill_id]

DepthRule(n) ==
  /\ Parents(n) \subseteq DOMAIN memo
  /\ memo[n] = 1 + SetMax({memo[p] : p \in Parents(n)})

----------------------------------------------------------------------------
(* C2, C3 *)

\* Recorded parents of n in the edge stream
StreamParents(n) == {e[2] : e \in {f \in EdgeSet(edges) : f[1] = n}}

Last(p) == p[Len(p)]

RepeatsEarlier(p) == \E j \in 1..(Len(p) - 1) : p[j] = Last(p)

PathsOf(i) == {calls[i].ret[k] : k \in 1..Len(calls[i].ret)}

\* C2: every returned path ends at a node with no recorded parents or at a
\* node that repeats an earlier element of the same path.
C2_PathEnds ==
  IsPathsRun =>
    \A i \in 1..Len(calls) : \A p \in PathsOf(i) :
      /\ Len(p) >= 1
      /\ StreamParents(Last(p)) = {} \/ RepeatsEarlier(p)

\* One query that returned a path closed by a cycle and a path ending at a root
C2_Witness ==
  /\ IsPathsRun
  /\ \E i \in 1..Len(calls) : \E p, q \in PathsOf(i) :
       /\ RepeatsEarlier(p) /\ Len(p) >= 3
       /\ StreamParents(Last(q)) = {} /\ Len(q) >= 2

\* The upward chains from the end of p that stop at a root or at the first
\* repeated node, told from the path alone
RECURSIVE ChainsFrom(_)
ChainsFrom(p) ==
  IF StreamParents(Last(p)) = {} \/ RepeatsEarlier(p) THEN {p}
  ELSE UNION {ChainsFrom(Append(p, q)) : q \in StreamParents(Last(p))}

MaximalChains(n) == ChainsFrom(<<n>>)

\* C3: the result of a query is exactly the set of maximal upward chains of
\* the queried node (a node visited in one parent's branch is still walked
\* through in a sibling's branch), and paths(D) of the diamond is
\* [D,B,A], [D,C,A].
C3_AllChains ==
  IsPathsRun =>
    \A i \in 1..Len(calls) :
      /\ PathsOf(i) = MaximalChains(calls[i].skill_id)
      /\ (edges = Diamond /\ calls[i].skill_id = "D") =>
           calls[i].ret = << <<"D", "B", "A">>, <<"D", "C", "A">> >>

\* A query whose later path walks through a node that an earlier sibling
\* branch had already expanded
C3_Witness ==
  /\ IsPathsRun
  /\ \E i \in 1..Len(calls) :
       LET ret == calls[i].ret
       IN \E a, b \in 1..Len(ret) :
            /\ a < b
            /\ \E ja \in 2..(Len(ret[a]) - 1), jb \in 2..(Len(ret[b]) - 1) :
                 ret[a][ja] = ret[b][jb]

----------------------------------------------------------------------------
(* C4 *)

TwoCycle(x, y) == x # y /\ parent_map = [k \in {x, y} |-> IF k = x THEN {y} ELSE {x}]

\* The one of x, y that was queried first
FirstQueried(x, y) ==
  LET i == CHOOSE j \in 1..Len(calls) :
             /\ calls[j].skill_id \in {x, y}
             /\ \A k \in 1..(j - 1) : calls[k].skill_id \notin {x, y}
  IN calls[i].skill_id

\* C4 as stated: on the two-node cycle, depth(X) is 1 or 2 and a
\* diagnostic is emitted.
C4_Original ==
  IsDepthRun =>
    \A x, y \in Nodes : TwoCycle(x, y) =>
      \A i \in 1..Len(calls) : calls[i].skill_id = x =>
        /\ calls[i].ret \in {1, 2}
        /\ out # <<>>

\* C4 amended: on the two-node cycle, depth(X) is 3 when X is queried
\* before Y and 2 when Y is queried before X, and a diagnostic is emitted.
C4_CycleDepth ==
  IsDepthRun =>
    \A x, y \in Nodes : TwoCycle(x, y) =>
      \A i \in 1..Len(calls) : calls[i].skill_id = x =>
        /\ calls[i].ret = IF FirstQueried(x, y) = x THEN 3 ELSE 2
        /\ out # <<>>

\* Both nodes of a two-node cycle were queried
C4_Witness ==
  /\ IsDepthRun
  /\ \E x, y \in Nodes :
       /\ TwoCycle(x, y)
       /\ \E i, j \in 1..Len(calls) :
            i < j /\ calls[i] = [skill_id |-> x, ret |-> 3] /\ calls[j] = [skill_id |-> y, ret |-> 2]

----------------------------------------------------------------------------
(* C5 *)

SameUnderEveryOrder ==
  \A o \in Orders(build_parent_map(edges)) :
    LET r == RunDepth(Queried, build_parent_map(edges), o, FreshRun)
    IN r.memo = memo /\ r.rets = Returned

\* C5 as stated: a run with any other parent iteration order and the same
\* queries ends with the same memo and the same returned depths, cycles or not.
C5_Original == IsDepthRun => SameUnderEveryOrder

\* C5 amended: the same, on edge lists without a cycle.
C5_OrderIndependent == (IsDepthRun /\ Acyclic(EdgeSet(edges))) => SameUnderEveryOrder

\* A node with two parents of different depth was queried on an acyclic list
C5_Witness ==
  /\ IsDepthRun
  /\ Acyclic(EdgeSet(edges))
  /\ \E i \in 1..Len(calls) : \E p, q \in Parents(calls[i].skill_id) :
       p \in DOMAIN memo /\ q \in DOMAIN memo /\ memo[p] < memo[q]

----------------------------------------------------------------------------
(* C6 *)

RECURSIVE DedupFrom(_, _, _)
DedupFrom(es, i, acc) ==
  IF i > Len(es) THEN acc
  ELSE DedupFrom(es, i + 1, IF es[i] \in EdgeSet(acc) THEN acc ELSE Append(acc, es[i]))

\* The edge stream with every repetition of an edge removed
Dedup(es) == DedupFrom(es, 1, <<>>)

\* C6: a run over the stream with repeated edges returns, for every query,
\* the depths and the paths that a run over the stream without the
\* repetitions returns.
C6_DuplicatesIdempotent ==
  /\ IsDepthRun =>
       LET r == RunDepth(Queried, build_parent_map(Dedup(edges)), order, FreshRun)
       IN r.rets = Returned /\ r.memo = memo
  /\ IsPathsRun =>
       \A i \in 1..Len(calls) :
         calls[i].ret = TopPaths(calls[i].skill_id, load_hierarchy(Dedup(edges))).paths

----------------------------------------------------------------------------
(* C7 *)

\* C7: two queries for the same node in one run return the same value
\* (depth) or the same list of paths, whatever was queried in between.
C7_SameAnswerTwice ==
  \A i, j \in 1..Len(calls) :
    calls[i].skill_id = calls[j].skill_id => calls[i].ret = calls[j].ret

\* A node on a cycle queried, then its parent, then the node again
C7_Witness ==
  /\ IsDepthRun
  /\ Len(calls) = 3
  /\ calls[1].skill_id = calls[3].skill_id
  /\ calls[2].skill_id # calls[1].skill_id
  /\ calls[2].skill_id \in Parents(calls[1].skill_id)
  /\ calls[1].skill_id \in Up(EdgeSet(edges), calls[1].skill_id)

----------------------------------------------------------------------------
(* C8 *)

\* C8: every query returns at least one path, every path starts with the
\* queried node, and a node without recorded parents yields just [node].
C8_NonEmptyFromNode ==
  IsPathsRun =>
    \A i \in 1..Len(calls) :
      /\ Len(calls[i].ret) >= 1
      /\ \A p \in PathsOf(i) : Len(p) >= 1 /\ p[1] = calls[i].skill_id
      /\ StreamParents(calls[i].skill_id) = {} => calls[i].ret = << <<calls[i].skill_id>> >>

\* A query for a node without parents and a query that returned several paths
C8_Witness ==
  /\ IsPathsRun
  /\ \E i, j \in 1..Len(calls) :
       /\ StreamParents(calls[i].skill_id) = {}
       /\ Len(calls[j].ret) >= 2

----------------------------------------------------------------------------
(* C9 *)

\* C9: a node without recorded parents has depth 1 whenever it is resolved,
\* by a query or as a parent met in the recursion, and every depth is >= 1.
C9_RootsAreOne ==
  IsDepthRun =>
    /\ \A n \in DOMAIN memo :
         /\ memo[n] \in Nat /\ memo[n] >= 1
         /\ StreamParents(n) = {} => memo[n] = 1
    /\ \A i \in 1..Len(calls) :
         /\ calls[i].ret \in Nat /\ calls[i].ret >= 1
         /\ StreamParents(calls[i].skill_id) = {} => calls[i].ret = 1

\* A dangling parent resolved only through recursion, and after it a query
\* for an identifier that has no entry in the index
C9_Witness ==
  /\ IsDepthRun
  /\ \E p \in DOMAIN memo :
       /\ p \notin DOMAIN parent_map
       /\ \A i \in 1..Len(calls) : calls[i].skill_id # p
  /\ Len(calls) >= 2
  /\ calls[Len(calls)].skill_id \notin DOMAIN parent_map
  /\ calls[1].ret >= 2

----------------------------------------------------------------------------
(* C10 *)

\* The labels of path, first to last, with " ; " between them; an
\* identifier without a label stands for itself
RECURSIVE RenderFrom(_, _, _, _)
RenderFrom(path, lbl, i, acc) ==
  IF i > Len(path) THEN acc
  ELSE RenderFrom(path, lbl, i + 1,
                  acc \o " ; " \o (IF path[i] \in DOMAIN lbl THEN lbl[path[i]] ELSE path[i]))

Rendered(path, lbl) ==
  RenderFrom(path, lbl, 2, IF path[1] \in DOMAIN lbl THEN lbl[path[1]] ELSE path[1])

\* The path an ESCO output row stands for: the skill, then its level columns
RowPath(r) == <<r.ID>> \o [k \in 1..Len(r.levels_up) |-> r.levels_up[k].id]

EscoPathString ==
  IsPathsRun =>
    \A k \in 1..Len(rows) :
      /\ rows[k].hierarchy_path = Rendered(RowPath(rows[k]), labels)
      /\ (labels = [x \in {"A"} |-> "Root Skill"] /\ RowPath(rows[k]) = <<"B", "A">>) =>
           rows[k].hierarchy_path = "B ; Root Skill"

Present(cells) == SelectSeq(cells, notna)

Values(cells) == [k \in 1..Len(cells) |-> cells[k][1]]

\* The path of an O*NET row, task first, and the names recorded for its ids
OnetPath(row) == Values(Present(<<row.Task_ID, row.DWA_ID, row.IWA_ID, row.WA_Element_ID>>))

OnetLabels(row) ==
  LET pairs == { <<row.Task_ID, row.Task>>, <<row.DWA_ID, row.DWA_Title>>,
                 <<row.IWA_ID, row.IWA_Title>>, <<row.WA_Element_ID, row.WA_Element_Name>> }
      named == {pr \in pairs : notna(pr[1]) /\ notna(pr[2])}
  IN [id \in {pr[1][1] : pr \in named} |-> (CHOOSE pr \in named : pr[1][1] = id)[2][1]]

\* C10 as stated, for both scripts that render a path string: the labels in
\* path order, queried node first, raw identifier where a label is missing.
C10_Original ==
  /\ EscoPathString
  /\ (IsOnetRun /\ "Hierarchy_Path" \in DOMAIN task_row) =>
       task_row.Hierarchy_Path = <<Rendered(OnetPath(task_row), OnetLabels(task_row))>>

\* C10 amended: as stated for the ESCO script; the O*NET script joins, with
\* the same separator, the names that are present in the order work
\* activity, IWA, DWA, task (ancestor first, task last), and gives None
\* when no name is present.
C10_PathString ==
  /\ EscoPathString
  /\ (IsOnetRun /\ "Hierarchy_Path" \in DOMAIN task_row) =>
       LET names == Values(Present(<<task_row.WA_Element_Name, task_row.IWA_Title,
                                     task_row.DWA_Title, task_row.Task>>))
       IN task_row.Hierarchy_Path =
            IF names = <<>> THEN NaN
            ELSE <<RenderFrom(names, EmptyDict, 2, names[1])>>

\* The documented example: labels {A: "Root Skill"}, a row for the path [B, A]
C10_Witness ==
  /\ IsPathsRun
  /\ labels = [x \in {"A"} |-> "Root Skill"]
  /\ \E k \in 1..Len(rows) :
       RowPath(rows[k]) = <<"B", "A">> /\ rows[k].hierarchy_path = "B ; Root Skill"

----------------------------------------------------------------------------
(* C11 *)

\* C11: after any sequence of queries the child -> parents index of the
\* running script has exactly the keys and the parent collections it was
\* built with; no query inserts a key, not even one for an identifier
\* without an entry.
C11_IndexUnchanged ==
  /\ IsDepthRun => parent_map = build_parent_map(edges)
  /\ IsPathsRun => child_to_parents = load_hierarchy(edges)

\* A query for an identifier without an entry, after a query that resolved
\* a dangling parent through the recursion
C11_Witness ==
  /\ IsDepthRun
  /\ Len(calls) >= 2
  /\ calls[Len(calls)].skill_id \notin DOMAIN build_parent_map(edges)
  /\ \E p \in DOMAIN memo :
       /\ p \notin DOMAIN build_parent_map(edges)
       /\ \A i \in 1..Len(calls) : calls[i].skill_id # p

----------------------------------------------------------------------------
(* C12 *)

\* C12: every top-level depth query and every top-level paths query finishes by
\* returning a value: no query ends the run with an exception, on any finite
\* edge list.  It fails on a hierarchy deeper than the recursion limit: both
\* resolvers recurse once per level and the RecursionError is not caught.
C12_EveryQueryReturns == ~raised

----------------------------------------------------------------------------
(* C13 *)

\* The nodes on a stack of step-4 frames
StackSet(stack) == {stack[i] : i \in 1..Len(stack)}

----------------------------------------------------------------------------
(* C14 *)

NoDuplicateEdges(es) == \A i, j \in 1..Len(es) : es[i] = es[j] => i = j

\* Number of identifiers of the longest path get_all_paths returns for n on
\* the index load_hierarchy builds from the same edge list
LongestPath(n) ==
  LET ps == TopPaths(n, load_hierarchy(edges)).paths
  IN SetMax({Len(ps[k]) : k \in 1..Len(ps)})

\* C14: on an acyclic edge list without duplicate edges the depth of every
\* node is the number of identifiers of the longest path the path enumerator
\* returns for it: for every query answered so far and for the query of any
\* node next, whatever was queried before.
C14_ResolversAgree ==
  (IsDepthRun /\ Acyclic(EdgeSet(edges)) /\ NoDuplicateEdges(edges)) =>
    /\ \A i \in 1..Len(calls) : calls[i].ret = LongestPath(calls[i].skill_id)
    /\ \A n \in Nodes : TopDepth(n, parent_map, memo, out, order).ret = LongestPath(n)

\* A node with two parents, one of them the parent of the other, answered 3
\* after an earlier query
C14_Witness ==
  /\ IsDepthRun
  /\ Acyclic(EdgeSet(edges))
  /\ NoDuplicateEdges(edges)
  /\ \E i \in 2..Len(calls) :
       /\ calls[i].ret = 3
       /\ Cardinality(Parents(calls[i].skill_id)) = 2
       /\ Len(TopPaths(calls[i].skill_id, load_hierarchy(edges)).paths) = 2

====
